---- MODULE Spec2Model ----
(***************************************************************************)
(* Model of src/main.py: an OpenAI-compatible chat-completion proxy in     *)
(* front of a generative API that needs short-lived bearer tokens.         *)
(*                                                                         *)
(* The handlers are `async def` functions on one event loop, so a handler  *)
(* runs atomically between two `await`s; init_credentials and get_token    *)
(* are synchronous and never interleave with anything.  One action of the  *)
(* model is one such atomic stretch of a handler.                          *)
(*                                                                         *)
(* Python values: None is the empty tuple, a str is a TLA+ string, a JSON  *)
(* object is a record whose fields are the keys it has, a JSON list is a   *)
(* sequence.  A JSON text is a string that names its content; json_loads   *)
(* maps the text to the value it parses to.                                *)
(* A log entry keeps the level and the kind of the message (the time and   *)
(* the interpolated text of the message are left out).                     *)
(***************************************************************************)
EXTENDS Integers, Sequences, FiniteSets, TLC

\* ---------------------------------------------------------------- constants
\* the defaults of the environment (lines 16-18), the lifetime line 70 gives a
\* token, the margin of line 82, the capacity of the log, and the defaults of
\* lines 237-238 (the temperature 0.7 counted in tenths)
PASSWORD == "123456"
TOKEN_LIFETIME == 1800
REFRESH_SKEW == 300
MAX_LOGS == 100
DEFAULT_TEMPERATURE_TENTHS == 7
DEFAULT_MAX_TOKENS == 2048
GCP_LOCATION == "us-central1"
GCP_MODEL == "gemini-2.0-flash-001"

\* ------------------------------------------------------------------- bounds
\* MaxTicks: steps of the clock; MaxLogs: no update and no chat request begins
\* once the log holds this many entries; MaxLines: lines of an upstream stream
MaxTicks == 2
MaxLogs == 3
MaxLines == 2

None == <<>>

VARIABLES
    GOOGLE_CREDENTIALS_JSON,  \* os.environ["GOOGLE_CREDENTIALS_JSON"]
    credentials_info,         \* None or the parsed key material
    GCP_PROJECT_ID,
    access_token,             \* None or the cached bearer token
    token_expiry,
    logger,                   \* logger.logs
    now,                      \* time.time()
    reqs,                     \* one record per chat request in flight
    op                        \* what the last handler step did

vars == <<GOOGLE_CREDENTIALS_JSON, credentials_info, GCP_PROJECT_ID, access_token,
          token_expiry, logger, now, reqs, op>>

\* --------------------------------------------------------------- MemoryLogger
\* deque(maxlen=max_logs).append: the oldest entry falls out when full
MemoryLogger_add(logs, level, message) ==
    LET l == Append(logs, [level |-> level, msg |-> message])
    IN  IF Len(l) > MAX_LOGS THEN Tail(l) ELSE l

\* ------------------------------------------------------------------- JSON
\* dict.get(key, default) and `key in dict`
Has(d, k) == k \in DOMAIN d
Get(d, k, default) == IF Has(d, k) THEN d[k] ELSE default

\* the JSON texts the environment may hold as key material at startup
InitialTexts == {"", "not json", "credA", "cred_no_project_id", "cred_no_private_key"}

\* the JSON texts an operator may post to /api/update
UpdateTexts == {"not json", "credB", "cred_no_project_id", "cred_empty_project_id"}

\* the bodies a caller may post to /v1/chat/completions
BodyTexts == {"not json", "body_plain", "body_stream", "body_stream_bare",
              "body_no_messages"}

\* the bodies the generative API may answer with, also as the payload of a
\* streamed line
Text(t) == [candidates |-> << [content |-> [parts |-> << [text |-> t] >>]] >>]
PayloadTexts == {"not json", "r_hello", "r_world", "r_empty_text", "r_no_candidates_key",
                 "r_empty_candidates", "r_no_content", "r_no_parts",
                 "r_empty_parts", "r_no_text"}

\* json.loads / request.json() / response.json(): ok = FALSE stands for the
\* exception raised on a text that is not JSON
json_loads(text) ==
    CASE text = "credA" ->
           [ok |-> TRUE, val |-> [type |-> "service_account", project_id |-> "projA",
                                  private_key |-> "keyA", client_email |-> "a@sa"]]
      [] text = "credB" ->
           [ok |-> TRUE, val |-> [type |-> "service_account", project_id |-> "projB",
                                  private_key |-> "keyB", client_email |-> "b@sa"]]
      [] text = "cred_no_project_id" ->
           [ok |-> TRUE, val |-> [type |-> "service_account",
                                  private_key |-> "keyC", client_email |-> "c@sa"]]
      [] text = "cred_empty_project_id" ->
           [ok |-> TRUE, val |-> [type |-> "service_account", project_id |-> "",
                                  private_key |-> "keyD", client_email |-> "d@sa"]]
      [] text = "cred_no_private_key" ->
           [ok |-> TRUE, val |-> [type |-> "service_account", project_id |-> "projE",
                                  client_email |-> "e@sa"]]
      [] text = "body_plain" ->
           [ok |-> TRUE, val |-> [messages |-> << [role |-> "user", content |-> "hi"] >>]]
      [] text = "body_stream" ->
           [ok |-> TRUE, val |-> [stream |-> TRUE,
                                  messages |-> << [role |-> "system", content |-> "be brief"],
                                                  [role |-> "user", content |-> "tell"] >>,
                                  temperature |-> 2, max_tokens |-> 100]]
      [] text = "body_stream_bare" ->
           [ok |-> TRUE, val |-> [stream |-> TRUE]]
      [] text = "body_no_messages" ->
           [ok |-> TRUE, val |-> [stream |-> FALSE, messages |-> <<>>]]
      [] text = "r_hello" -> [ok |-> TRUE, val |-> Text("hello")]
      [] text = "r_world" -> [ok |-> TRUE, val |-> Text("world")]
      [] text = "r_empty_text" -> [ok |-> TRUE, val |-> Text("")]
      [] text = "r_no_candidates_key" -> [ok |-> TRUE, val |-> [usage |-> 0]]
      [] text = "r_empty_candidates" -> [ok |-> TRUE, val |-> [candidates |-> <<>>]]
      [] text = "r_no_content" ->
           [ok |-> TRUE, val |-> [candidates |-> << [finishReason |-> "SAFETY"] >>]]
      [] text = "r_no_parts" ->
           [ok |-> TRUE, val |-> [candidates |-> << [content |-> [role |-> "model"]] >>]]
      [] text = "r_empty_parts" ->
           [ok |-> TRUE, val |-> [candidates |-> << [content |-> [parts |-> <<>>]] >>]]
      [] text = "r_no_text" ->
           [ok |-> TRUE,
            val |-> [candidates |-> << [content |-> [parts |-> << [inlineData |-> "x"] >>]] >>]]
      [] OTHER -> [ok |-> FALSE, val |-> <<>>]

\* the answers of the identity provider to creds.refresh(): rejected, or a
\* token with an expires_in (NoExpiresIn: the field is not in the answer)
NoExpiresIn == 0 - 1
ExpiresInValues == {NoExpiresIn, TOKEN_LIFETIME, 3600}
Exchanges == [ok : {TRUE}, expires_in : ExpiresInValues]
             \cup {[ok |-> FALSE, expires_in |-> NoExpiresIn]}

\* the bearer token an exchange at time t with key material info returns
Token(info, t) == <<"token", info.private_key, info.project_id, t>>

Globals == [GOOGLE_CREDENTIALS_JSON |-> GOOGLE_CREDENTIALS_JSON,
            credentials_info |-> credentials_info,
            GCP_PROJECT_ID |-> GCP_PROJECT_ID,
            access_token |-> access_token,
            token_expiry |-> token_expiry,
            logger |-> logger]

\* what a call of init_credentials did: its result, the number of exchanges
\* it attempted and the expires_in of the provider's answer
Load(result, exchanges, expires_in) ==
    [called |-> 1, ok |-> result = "ok", result |-> result, exchanges |-> exchanges,
     expires_in |-> expires_in]
NoLoad == [called |-> 0, ok |-> FALSE, result |-> "none", exchanges |-> 0,
           expires_in |-> NoExpiresIn]

\* a handler that forgets the cached token and keeps its expiry
credentials_failed_resetting(g) ==
    [g EXCEPT !.access_token = None,
              !.logger = MemoryLogger_add(@, "error", "credential failed")]

\* a handler that drops the cached token when a load fails
credentials_failed_clearing(g) ==
    [g EXCEPT !.access_token = None, !.token_expiry = 0,
              !.logger = MemoryLogger_add(@, "error", "credential failed")]

\* lines 73-75: the handler of an exception raised inside the try block; it
\* logs and returns False
credentials_failed(g) ==
    [g EXCEPT !.logger = MemoryLogger_add(@, "error", "credential failed")]

\* lines 69-71: a successful exchange stores the token and its expiry
credentials_loaded(g, info, t, exch) ==
    [g EXCEPT !.access_token = Token(info, t),
              !.token_expiry = t + TOKEN_LIFETIME,
              !.logger = MemoryLogger_add(@, "info", "credential loaded")]

\* init_credentials() run on the globals g at time t; exch is the provider's
\* answer if the exchange is reached.  Returns the globals after the call and
\* what the call did.
init_credentials(g, t, exch) ==
    LET json_str == g.GOOGLE_CREDENTIALS_JSON
        parsed == json_loads(json_str)
        info == parsed.val
        project == Get(info, "project_id", "")
        g1 == [g EXCEPT !.credentials_info = info, !.GCP_PROJECT_ID = project]
    IN
    IF json_str = "" THEN
        [g |-> [g EXCEPT !.logger = MemoryLogger_add(@, "error", "no GOOGLE_CREDENTIALS_JSON")],
         load |-> Load("not_configured", 0, NoExpiresIn)]
    ELSE IF ~parsed.ok THEN
        [g |-> credentials_failed(g),
         load |-> Load("malformed", 0, NoExpiresIn)]
    ELSE IF project = "" THEN
        [g |-> [g1 EXCEPT !.logger = MemoryLogger_add(@, "error", "no project_id")],
         load |-> Load("missing_project_id", 0, NoExpiresIn)]
    ELSE IF ~(Has(info, "private_key") /\ Has(info, "client_email")) THEN
        \* from_service_account_info raises before any exchange
        [g |-> credentials_failed(g1),
         load |-> Load("bad_key_material", 0, NoExpiresIn)]
    ELSE IF ~exch.ok THEN
        [g |-> credentials_failed(g1),
         load |-> Load("exchange_failed", 1, NoExpiresIn)]
    ELSE
        [g |-> credentials_loaded(g1, info, t, exch),
         load |-> Load("ok", 1, exch.expires_in)]

\* the values of the module's globals before line 77 runs
BlankGlobals(text) ==
    [GOOGLE_CREDENTIALS_JSON |-> text,
     credentials_info |-> None,
     GCP_PROJECT_ID |-> "",
     access_token |-> None,
     token_expiry |-> 0,
     logger |-> <<>>]

\* lines 77-78: the load at import time and its warning
Startup(text, exch) ==
    LET res == init_credentials(BlankGlobals(text), 0, exch)
    IN  IF res.load.ok THEN res.g
        ELSE [res.g EXCEPT !.logger = MemoryLogger_add(@, "warning", "not loaded at startup")]

\* a refresh condition that already holds at the threshold
is_stale_at_threshold(t, expiry) == t >= expiry - REFRESH_SKEW

\* line 82: the refresh condition
is_stale(t, expiry) == t > expiry - REFRESH_SKEW

\* a get_token that loads a second time when the first load fails
get_token_retrying(g, t, exch) ==
    LET stale == is_stale(t, g.token_expiry)
        first == IF stale THEN init_credentials(g, t, exch) ELSE [g |-> g, load |-> NoLoad]
        retried == stale /\ ~first.load.ok
        second == init_credentials(first.g, t, exch)
        res == IF retried
               THEN [g |-> second.g,
                     load |-> [second.load EXCEPT
                                  !.called = @ + first.load.called,
                                  !.exchanges = @ + first.load.exchanges]]
               ELSE first
    IN  [g |-> res.g, load |-> res.load, stale |-> stale,
         token |-> res.g.access_token,
         left |-> res.g.token_expiry - t]

\* a get_token that exchanges on every call
get_token_always_refreshing(g, t, exch) ==
    LET res == init_credentials(g, t, exch)
    IN  [g |-> res.g, load |-> res.load, stale |-> is_stale(t, g.token_expiry),
         token |-> res.g.access_token,
         left |-> res.g.token_expiry - t]

\* get_token() on the globals g at time t
get_token(g, t, exch) ==
    LET stale == is_stale(t, g.token_expiry)
        res == IF stale THEN init_credentials(g, t, exch) ELSE [g |-> g, load |-> NoLoad]
    IN  [g |-> res.g, load |-> res.load, stale |-> stale,
         token |-> res.g.access_token,
         left |-> res.g.token_expiry - t]

SetGlobals(g) ==
    /\ GOOGLE_CREDENTIALS_JSON' = g.GOOGLE_CREDENTIALS_JSON
    /\ credentials_info' = g.credentials_info
    /\ GCP_PROJECT_ID' = g.GCP_PROJECT_ID
    /\ access_token' = g.access_token
    /\ token_expiry' = g.token_expiry
    /\ logger' = g.logger

\* ------------------------------------------------------------ the clock
\* time passes in steps of one second or of one second less than the age at
\* which a token reaches the refresh threshold
LongTick == TOKEN_LIFETIME - REFRESH_SKEW - 1
TickSteps == {1, LongTick}
TicksTaken == (now \div LongTick) + (now % LongTick)

NoOp == [name |-> "none", r |-> 0, load |-> NoLoad, get_token |-> FALSE,
         stale |-> FALSE, upstream |-> 0, success |-> FALSE]

Tick(d) ==
    /\ TicksTaken < MaxTicks
    /\ now' = now + d
    /\ op' = [NoOp EXCEPT !.name = "tick"]
    /\ UNCHANGED <<GOOGLE_CREDENTIALS_JSON, credentials_info, GCP_PROJECT_ID,
                   access_token, token_expiry, logger, reqs>>

\* ------------------------------------------------------- POST /api/update
RequiredFields == {"type", "project_id", "private_key", "client_email"}
Passwords == {PASSWORD, "wrong"}

update(pwd, text, exch) ==
    LET parsed == json_loads(text)
        info == parsed.val
        res == init_credentials([Globals EXCEPT !.GOOGLE_CREDENTIALS_JSON = text],
                                now, exch)
        reached == pwd = PASSWORD /\ parsed.ok /\ (\A k \in RequiredFields : Has(info, k))
    IN
    /\ Len(logger) < MaxLogs
    /\ IF reached
       THEN /\ SetGlobals(res.g)
            /\ op' = [NoOp EXCEPT !.name = "update", !.load = res.load,
                                  !.success = res.load.ok]
       ELSE /\ UNCHANGED <<GOOGLE_CREDENTIALS_JSON, credentials_info, GCP_PROJECT_ID,
                           access_token, token_expiry, logger>>
            /\ op' = [NoOp EXCEPT !.name = "update"]
    /\ UNCHANGED <<now, reqs>>

\* ------------------------------------------- POST /v1/chat/completions
Reqs == {1}

AuthHeaders == {"", "Bearer " \o PASSWORD, "Bearer wrong", PASSWORD}

NoUrl == [project |-> "", location |-> "", model |-> "", method |-> ""]
NoBody == [contents |-> <<>>,
           generationConfig |-> [temperature |-> 0, maxOutputTokens |-> 0]]

\* a request before chat() has run
NewReq ==
    [pc |-> "idle", auth |-> "", body |-> "", is_stream |-> FALSE,
     url |-> NoUrl, vertex_body |-> NoBody,
     token |-> None, left |-> 0, got_token |-> FALSE,
     status |-> 0, detail |-> "", content |-> "",
     upstream_status |-> 0, upstream_text |-> "",
     opened |-> FALSE, lines |-> <<>>, fails |-> FALSE, message |-> "",
     pos |-> 0, out |-> <<>>,
     conn_open |-> FALSE, at_yield |-> FALSE, closed |-> FALSE,
     loads |-> 0, exchanges |-> 0, upstream_calls |-> 0, outcome_logs |-> 0]

\* raise HTTPException(status, detail) that leaves the handler
Raise(q, status, detail) ==
    [q EXCEPT !.pc = "done", !.status = status, !.detail = detail]

\* lines 319-321: the handler's `except Exception as e`
HandleException(g, q, message) ==
    [g |-> [g EXCEPT !.logger = MemoryLogger_add(@, "error", "handling failed")],
     q |-> [Raise(q, 500, message) EXCEPT !.outcome_logs = @ + 1]]

\* a bearer check that also accepts the bare secret without the scheme
authorized_bare_secret(auth) == auth = "Bearer " \o PASSWORD \/ auth = PASSWORD

\* line 219: the bearer check
authorized(auth) == auth = "Bearer " \o PASSWORD

\* lines 218-224: the bearer check and the load when no token is cached
chat_begin(r, auth, exch) ==
    LET q == [NewReq EXCEPT !.auth = auth]
        res == init_credentials(Globals, now, exch)
        q1 == [q EXCEPT !.loads = res.load.called, !.exchanges = res.load.exchanges]
    IN
    /\ reqs[r].pc \in {"idle", "done", "abandoned"}
    /\ Len(logger) < MaxLogs
    /\ IF ~authorized(auth)
       THEN /\ reqs' = [reqs EXCEPT ![r] = Raise(q, 401, "Unauthorized")]
            /\ op' = [NoOp EXCEPT !.name = "chat_begin", !.r = r]
            /\ UNCHANGED <<GOOGLE_CREDENTIALS_JSON, credentials_info, GCP_PROJECT_ID,
                           access_token, token_expiry, logger>>
       ELSE IF access_token = None
       THEN /\ SetGlobals(res.g)
            /\ op' = [NoOp EXCEPT !.name = "chat_begin", !.r = r, !.load = res.load]
            /\ reqs' = [reqs EXCEPT ![r] =
                         IF res.load.ok THEN [q1 EXCEPT !.pc = "await_json"]
                         ELSE Raise(q1, 500, "credentials missing or invalid")]
       ELSE /\ reqs' = [reqs EXCEPT ![r] = [q EXCEPT !.pc = "await_json"]]
            /\ op' = [NoOp EXCEPT !.name = "chat_begin", !.r = r]
            /\ UNCHANGED <<GOOGLE_CREDENTIALS_JSON, credentials_info, GCP_PROJECT_ID,
                           access_token, token_expiry, logger>>
    /\ UNCHANGED now

\* a translation that takes the text of the first message
translate_first_message(body, project) ==
    LET is_stream == Get(body, "stream", FALSE)
        messages == Get(body, "messages", << <<>> >>)
        user_text == Get(messages[1], "content", "")
    IN
    IF Len(messages) = 0
    THEN [ok |-> FALSE, error |-> "list index out of range", is_stream |-> is_stream,
          url |-> NoUrl, vertex_body |-> NoBody]
    ELSE [ok |-> TRUE, error |-> "", is_stream |-> is_stream,
          url |-> [project |-> project, location |-> GCP_LOCATION, model |-> GCP_MODEL,
                   method |-> IF is_stream THEN "streamGenerateContent"
                              ELSE "generateContent"],
          vertex_body |->
             [contents |-> << [role |-> "user", parts |-> << [text |-> user_text] >>] >>,
              generationConfig |->
                 [temperature |-> Get(body, "temperature", DEFAULT_TEMPERATURE_TENTHS),
                  maxOutputTokens |-> Get(body, "max_tokens", DEFAULT_MAX_TOKENS)]]]

\* lines 228-240: the upstream URL and body for a parsed request body
translate(body, project) ==
    LET is_stream == Get(body, "stream", FALSE)
        messages == Get(body, "messages", << <<>> >>)
        user_text == Get(messages[Len(messages)], "content", "")
    IN
    IF Len(messages) = 0
    THEN [ok |-> FALSE, error |-> "list index out of range", is_stream |-> is_stream,
          url |-> NoUrl, vertex_body |-> NoBody]
    ELSE [ok |-> TRUE, error |-> "", is_stream |-> is_stream,
          url |-> [project |-> project, location |-> GCP_LOCATION, model |-> GCP_MODEL,
                   method |-> IF is_stream THEN "streamGenerateContent"
                              ELSE "generateContent"],
          vertex_body |->
             [contents |-> << [role |-> "user", parts |-> << [text |-> user_text] >>] >>,
              generationConfig |->
                 [temperature |-> Get(body, "temperature", DEFAULT_TEMPERATURE_TENTHS),
                  maxOutputTokens |-> Get(body, "max_tokens", DEFAULT_MAX_TOKENS)]]]

\* what get_token() did, recorded in the request that called it
WithToken(q, gt) ==
    [q EXCEPT !.token = gt.token, !.left = gt.left, !.got_token = TRUE,
              !.loads = @ + gt.load.called, !.exchanges = @ + gt.load.exchanges]

\* lines 227-295: from the arrival of the request body to the return of the
\* StreamingResponse (stream) or to the sending of the upstream call
chat_body(r, text, exch) ==
    LET q == [reqs[r] EXCEPT !.body = text]
        parsed == json_loads(text)
        tr == translate(parsed.val, GCP_PROJECT_ID)
        failure == IF ~parsed.ok THEN "invalid request body" ELSE tr.error
        failed == HandleException(Globals, q, failure)
        q1 == [q EXCEPT !.is_stream = tr.is_stream, !.url = tr.url,
                        !.vertex_body = tr.vertex_body]
        g1 == [Globals EXCEPT !.logger = MemoryLogger_add(@, "info", "request")]
        gt == get_token(g1, now, exch)
    IN
    /\ reqs[r].pc = "await_json"
    /\ IF ~parsed.ok \/ ~tr.ok
       THEN /\ SetGlobals(failed.g)
            /\ reqs' = [reqs EXCEPT ![r] = failed.q]
            /\ op' = [NoOp EXCEPT !.name = "chat_body", !.r = r]
       ELSE IF tr.is_stream
       THEN /\ SetGlobals(g1)
            /\ reqs' = [reqs EXCEPT ![r] = [q1 EXCEPT !.pc = "stream_pending",
                                                      !.status = 200]]
            /\ op' = [NoOp EXCEPT !.name = "chat_body", !.r = r]
       ELSE /\ SetGlobals(gt.g)
            /\ reqs' = [reqs EXCEPT ![r] = [WithToken(q1, gt) EXCEPT
                                              !.pc = "await_post",
                                              !.upstream_calls = @ + 1]]
            /\ op' = [NoOp EXCEPT !.name = "chat_body", !.r = r, !.load = gt.load,
                                  !.get_token = TRUE, !.stale = gt.stale,
                                  !.upstream = 1]
    /\ UNCHANGED now

\* ------------------------------------------------- the upstream's answers
UpstreamStatuses == {200, 429, 500}
ErrorTexts == {"quota exceeded", "r_hello"}

\* an answer to client.post: a transport error (timeout, connection reset)
\* or a status with a body
PostAnswers ==
    {[error |-> TRUE, status |-> 0, text |-> ""]}
    \cup [error : {FALSE}, status : {200}, text : PayloadTexts]
    \cup [error : {FALSE}, status : UpstreamStatuses \ {200}, text : ErrorTexts]

\* str(e) of the HTTPException raised at line 299: "<status>: <detail>" with a
\* Starlette that defines __str__, the empty string with one that does not
str_HTTPException(status, detail) == {ToString(status) \o ": " \o detail, ""}

\* lines 302-303 on the parsed body: the text of the first part of the first
\* candidate; ok = FALSE stands for the IndexError of [0] on an empty list
extract_text(result) ==
    LET candidates == Get(result, "candidates", << <<>> >>)
        parts == Get(Get(candidates[1], "content", <<>>), "parts", << <<>> >>)
    IN  IF Len(candidates) = 0 THEN [ok |-> FALSE, text |-> ""]
        ELSE IF Len(parts) = 0 THEN [ok |-> FALSE, text |-> ""]
        ELSE [ok |-> TRUE, text |-> Get(parts[1], "text", "")]

\* lines 295-321: the upstream answer arrives on the non-streaming path
chat_post_return(r, answer, detail) ==
    LET q == [reqs[r] EXCEPT !.upstream_status = answer.status,
                             !.upstream_text = answer.text]
        parsed == json_loads(answer.text)
        ex == extract_text(parsed.val)
        g_vertex == [Globals EXCEPT !.logger = MemoryLogger_add(@, "error", "upstream error")]
        res == IF answer.error THEN HandleException(Globals, q, "transport error")
               ELSE IF answer.status # 200
                    THEN HandleException(g_vertex, [q EXCEPT !.outcome_logs = @ + 1], detail)
               ELSE IF ~parsed.ok THEN HandleException(Globals, q, "invalid response body")
               ELSE IF ~ex.ok THEN HandleException(Globals, q, "list index out of range")
               ELSE [g |-> [Globals EXCEPT !.logger = MemoryLogger_add(@, "success", "done")],
                     q |-> [q EXCEPT !.pc = "done", !.status = 200, !.content = ex.text,
                                     !.outcome_logs = @ + 1]]
    IN
    /\ reqs[r].pc = "await_post"
    /\ detail \in str_HTTPException(answer.status, answer.text)
    /\ SetGlobals(res.g)
    /\ reqs' = [reqs EXCEPT ![r] = res.q]
    /\ op' = [NoOp EXCEPT !.name = "chat_post_return", !.r = r]
    /\ UNCHANGED now

\* ------------------------------------------------------- stream_response
\* an upstream line: a prefix and the rest of the line
Line(prefix, payload) == [prefix |-> prefix, payload |-> payload]
LineKinds == {Line("", ""), Line("", "r_hello"), Line("data: ", "r_hello"),
              Line("data: ", "r_world"), Line("data: ", "r_empty_text"),
              Line("data: ", "not json"), Line("data: ", "r_empty_candidates"),
              Line("data: ", "r_empty_parts"), Line("data: ", "r_no_text")}

RECURSIVE SeqsUpTo(_, _)
SeqsUpTo(S, n) ==
    IF n = 0 THEN {<<>>}
    ELSE LET shorter == SeqsUpTo(S, n - 1)
         IN  shorter \cup {Append(l, x) : l \in {m \in shorter : Len(m) = n - 1}, x \in S}

\* str(e) of the exception of a failed open or read
ErrorMessages == {"timed out", "connection reset"}

\* an answer to client.stream: the open fails, or the upstream answers with a
\* status and lines, after which the body ends or the read fails

StreamAnswers ==
    [opened : {FALSE}, status : {0}, lines : {<<>>}, fails : {TRUE},
     message : ErrorMessages]
    \cup [opened : {TRUE}, status : {200, 429}, lines : SeqsUpTo(LineKinds, MaxLines),
          fails : {TRUE}, message : ErrorMessages]
    \cup [opened : {TRUE}, status : {200, 429}, lines : SeqsUpTo(LineKinds, MaxLines),
          fails : {FALSE}, message : {""}]

ChunkFrame(text) == [kind |-> "chunk", content |-> text]
DoneFrame == [kind |-> "done", content |-> "[DONE]"]
ErrorFrame(message) == [kind |-> "error", content |-> message]

\* an error handler that goes on to the sentinel after the error frame
error_frames_then_done(message) == << ErrorFrame(message), DoneFrame >>

\* line 281: the frame that reports the exception
error_frames(message) == << ErrorFrame(message) >>

\* lines 279-281: the generator's `except Exception as e`; the exception has
\* left both `async with` blocks, so the upstream connection is released.  A
\* generator that was already told to close (see downstream_close) cannot
\* deliver the frame: it stays suspended at the yield of line 281.
StreamException(g, q, message) ==
    [g |-> [g EXCEPT !.logger = MemoryLogger_add(@, "error", "stream error")],
     q |-> IF q.closed
           THEN [q EXCEPT !.pc = "abandoned", !.conn_open = FALSE, !.at_yield = FALSE,
                          !.outcome_logs = @ + 1]
           ELSE [q EXCEPT !.pc = "done", !.out = @ \o error_frames(message),
                          !.conn_open = FALSE, !.at_yield = FALSE,
                          !.outcome_logs = @ + 1]]

\* lines 247-253: the generator starts: get_token() and the sending of the
\* upstream call
stream_start(r, exch) ==
    LET gt == get_token(Globals, now, exch)
    IN
    /\ reqs[r].pc = "stream_pending"
    /\ SetGlobals(gt.g)
    /\ reqs' = [reqs EXCEPT ![r] = [WithToken(reqs[r], gt) EXCEPT
                                      !.pc = "stream_sent", !.upstream_calls = @ + 1]]
    /\ op' = [NoOp EXCEPT !.name = "stream_start", !.r = r, !.load = gt.load,
                          !.get_token = TRUE, !.stale = gt.stale, !.upstream = 1]
    /\ UNCHANGED now

\* line 254: the upstream answers the call, or the call fails
stream_opened(r, answer) ==
    LET q == [reqs[r] EXCEPT !.upstream_status = answer.status,
                             !.message = answer.message]
        res == IF ~answer.opened THEN StreamException(Globals, q, answer.message)
               ELSE [g |-> Globals,
                     q |-> [q EXCEPT !.pc = "streaming", !.opened = TRUE,
                                     !.conn_open = TRUE,
                                     !.lines = answer.lines, !.fails = answer.fails]]
    IN
    /\ reqs[r].pc = "stream_sent"
    /\ SetGlobals(res.g)
    /\ reqs' = [reqs EXCEPT ![r] = res.q]
    /\ op' = [NoOp EXCEPT !.name = "stream_opened", !.r = r]
    /\ UNCHANGED now

\* a loop that parses every line, with or without the `data: ` prefix
frames_of_line_any_prefix(line) ==
    LET parsed == json_loads(line.payload)
        candidates == Get(parsed.val, "candidates", << <<>> >>)
        parts == Get(Get(candidates[1], "content", <<>>), "parts", << <<>> >>)
        text == Get(parts[1], "text", "")
    IN  IF ~parsed.ok THEN <<>>
        ELSE IF Len(candidates) = 0 THEN <<>>
        ELSE IF Len(parts) = 0 THEN <<>>
        ELSE IF text = "" THEN <<>>
        ELSE << ChunkFrame(text) >>

\* lines 256-277: the frames one upstream line produces
frames_of_line(line) ==
    LET parsed == json_loads(line.payload)
        candidates == Get(parsed.val, "candidates", << <<>> >>)
        parts == Get(Get(candidates[1], "content", <<>>), "parts", << <<>> >>)
        text == Get(parts[1], "text", "")
    IN  IF line.prefix \o line.payload = "" \/ line.prefix # "data: " THEN <<>>
        ELSE IF ~parsed.ok THEN <<>>
        ELSE IF Len(candidates) = 0 THEN <<>>
        ELSE IF Len(parts) = 0 THEN <<>>
        ELSE IF text = "" THEN <<>>
        ELSE << ChunkFrame(text) >>

\* one turn of the loop at line 255: the next upstream line is read and its
\* frame, if any, is yielded; the generator is then suspended at line 275
\* until the consumer asks for the next frame.  A generator that was already
\* told to close cannot deliver a frame: the yield makes aclose() raise
\* RuntimeError and the generator stays suspended there, inside both
\* `async with` blocks.
stream_line(r) ==
    LET q == reqs[r]
        frames == frames_of_line(q.lines[q.pos + 1])
    IN
    /\ q.pc = "streaming"
    /\ q.pos < Len(q.lines)
    /\ reqs' = [reqs EXCEPT ![r] =
                  IF q.closed
                  THEN [q EXCEPT !.pos = @ + 1,
                                 !.pc = IF frames = <<>> THEN "streaming" ELSE "abandoned"]
                  ELSE [q EXCEPT !.pos = @ + 1, !.out = @ \o frames,
                                 !.at_yield = frames # <<>>]]
    /\ op' = [NoOp EXCEPT !.name = "stream_line", !.r = r]
    /\ UNCHANGED <<GOOGLE_CREDENTIALS_JSON, credentials_info, GCP_PROJECT_ID,
                   access_token, token_expiry, logger, now>>

\* a generator that ends without the sentinel
end_of_stream_silent(out) == out

\* line 278: the sentinel after the last upstream line
end_of_stream(out) == Append(out, DoneFrame)

\* the upstream body ends (line 278) or the read raises (lines 279-281); the
\* sentinel is yielded inside both `async with` blocks, which are left when
\* the consumer resumes the generator after it
stream_end(r) ==
    LET q == reqs[r]
        res == IF q.fails THEN StreamException(Globals, q, q.message)
               ELSE IF q.closed
               THEN [g |-> Globals, q |-> [q EXCEPT !.pc = "abandoned"]]
               ELSE [g |-> Globals,
                     q |-> [q EXCEPT !.pc = "done", !.out = end_of_stream(@),
                                     !.conn_open = FALSE, !.at_yield = FALSE]]
    IN
    /\ q.pc = "streaming"
    /\ q.pos = Len(q.lines)
    /\ SetGlobals(res.g)
    /\ reqs' = [reqs EXCEPT ![r] = res.q]
    /\ op' = [NoOp EXCEPT !.name = "stream_end", !.r = r]
    /\ UNCHANGED now

\* the consumer of the event stream disconnects (lines 283-286 hand the
\* generator to StreamingResponse, which is cancelled).  A generator that is
\* awaiting the upstream (the answer to the call or the next line) gets the
\* CancelledError at that await: it passes `except Exception`, leaves both
\* `async with` blocks and ends the generator.  A generator suspended at the
\* yield of line 275 is closed with GeneratorExit thrown at that yield, inside
\* the try of line 257: the bare `except:` of line 276 catches it and
\* `continue`s, so the loop goes on reading the upstream.
downstream_close(r) ==
    LET q == reqs[r]
    IN
    /\ q.pc \in {"stream_sent", "streaming"}
    /\ ~q.closed
    /\ reqs' = [reqs EXCEPT ![r] =
                  IF q.pc = "streaming" /\ q.at_yield
                  THEN [q EXCEPT !.closed = TRUE, !.at_yield = FALSE]
                  ELSE [q EXCEPT !.closed = TRUE, !.pc = "done", !.conn_open = FALSE]]
    /\ op' = [NoOp EXCEPT !.name = "downstream_close", !.r = r]
    /\ UNCHANGED <<GOOGLE_CREDENTIALS_JSON, credentials_info, GCP_PROJECT_ID,
                   access_token, token_expiry, logger, now>>

\* ------------------------------------------------- GET /health, /api/status
\* lines 323-325
health == [status |-> "ok", project |-> GCP_PROJECT_ID,
           cred_valid |-> access_token # None]

\* lines 183-191: the answer to a request with the right password
status == [project |-> GCP_PROJECT_ID, model |-> GCP_MODEL,
           cred |-> access_token # None]

\* ------------------------------------------------------ the specification
\* the whole service, with few shapes of upstream answer
\* the requests that are at a given point of the handler
At(pc) == {r \in Reqs : reqs[r].pc = pc}

FewPostAnswers ==
    {a \in PostAnswers : a.text \in {"", "r_hello", "quota exceeded"} /\ a.status # 500}
FewStreamAnswers ==
    [opened : {FALSE}, status : {0}, lines : {<<>>}, fails : {TRUE},
     message : {"connection reset"}]
    \cup [opened : {TRUE}, status : {200},
          lines : SeqsUpTo({Line("data: ", "r_hello")}, 1),
          fails : {TRUE}, message : {"connection reset"}]
    \cup [opened : {TRUE}, status : {200},
          lines : SeqsUpTo({Line("data: ", "r_hello")}, 1),
          fails : {FALSE}, message : {""}]
FewBodyTexts == {"body_plain", "body_stream", "body_no_messages"}

Init ==
    /\ \E text \in InitialTexts, exch \in Exchanges :
          LET g == Startup(text, exch)
          IN  /\ GOOGLE_CREDENTIALS_JSON = g.GOOGLE_CREDENTIALS_JSON
              /\ credentials_info = g.credentials_info
              /\ GCP_PROJECT_ID = g.GCP_PROJECT_ID
              /\ access_token = g.access_token
              /\ token_expiry = g.token_expiry
              /\ logger = g.logger
    /\ now = 0
    /\ reqs = [r \in Reqs |-> NewReq]
    /\ op = NoOp

Next ==
    \/ \E d \in TickSteps : Tick(d)
    \/ \E pwd \in Passwords, text \in UpdateTexts, exch \in Exchanges : update(pwd, text, exch)
    \/ \E r \in Reqs, auth \in AuthHeaders, exch \in Exchanges : chat_begin(r, auth, exch)
    \/ \E r \in At("await_json"), text \in FewBodyTexts, exch \in Exchanges : chat_body(r, text, exch)
    \/ \E r \in At("await_post"), answer \in FewPostAnswers :
          \E detail \in str_HTTPException(answer.status, answer.text) :
             chat_post_return(r, answer, detail)
    \/ \E r \in At("stream_pending"), exch \in Exchanges : stream_start(r, exch)
    \/ \E r \in At("stream_sent"), answer \in FewStreamAnswers : stream_opened(r, answer)
    \/ \E r \in Reqs : stream_line(r)
    \/ \E r \in Reqs : stream_end(r)
    \/ \E r \in Reqs : downstream_close(r)

Spec == Init /\ [][Next]_vars

\* the chat endpoint alone, started with usable key material, against every
\* shape of upstream answer
InitUpstream ==
    /\ \E exch \in {e \in Exchanges : e.ok /\ e.expires_in = TOKEN_LIFETIME} :
          LET g == Startup("credA", exch)
          IN  /\ GOOGLE_CREDENTIALS_JSON = g.GOOGLE_CREDENTIALS_JSON
              /\ credentials_info = g.credentials_info
              /\ GCP_PROJECT_ID = g.GCP_PROJECT_ID
              /\ access_token = g.access_token
              /\ token_expiry = g.token_expiry
              /\ logger = g.logger
    /\ now = 0
    /\ reqs = [r \in Reqs |-> NewReq]
    /\ op = NoOp

NextUpstream ==
    \/ \E r \in Reqs, auth \in AuthHeaders, exch \in Exchanges : chat_begin(r, auth, exch)
    \/ \E r \in At("await_json"), text \in BodyTexts, exch \in Exchanges : chat_body(r, text, exch)
    \/ \E r \in At("await_post"), answer \in PostAnswers :
          \E detail \in str_HTTPException(answer.status, answer.text) :
             chat_post_return(r, answer, detail)
    \/ \E r \in At("stream_pending"), exch \in Exchanges : stream_start(r, exch)
    \/ \E r \in At("stream_sent"), answer \in StreamAnswers : stream_opened(r, answer)
    \/ \E r \in Reqs : stream_line(r)
    \/ \E r \in Reqs : stream_end(r)
    \/ \E r \in Reqs : downstream_close(r)

SpecUpstream == InitUpstream /\ [][NextUpstream]_vars

\* ----------------------------------------------------------------- claims
CredentialState == <<GOOGLE_CREDENTIALS_JSON, credentials_info, GCP_PROJECT_ID,
                     access_token, token_expiry>>

\* C1: a chat request whose Authorization header is not exactly
\* "Bearer <secret>" (an absent header included) fails with 401, and the step
\* that handles it attempts no credential load and no exchange, makes no
\* upstream call and leaves key material, project id, token and expiry as
\* they were.
C1_UnauthorizedFailsFast ==
    [][\A r \in Reqs :
         (op'.name = "chat_begin" /\ op'.r = r /\ reqs'[r].auth # "Bearer " \o PASSWORD)
         => /\ reqs'[r].pc = "done"
            /\ reqs'[r].status = 401
            /\ op'.load.called = 0 /\ op'.load.exchanges = 0 /\ op'.upstream = 0
            /\ reqs'[r].loads = 0 /\ reqs'[r].exchanges = 0
            /\ reqs'[r].upstream_calls = 0
            /\ CredentialState' = CredentialState
            /\ logger' = logger]_vars

\* a request with a wrong secret was rejected while no token was cached, the
\* state in which an authorized request would have loaded the credentials
C1_Witness ==
    \E r \in Reqs : /\ op.name = "chat_begin" /\ op.r = r
                    /\ reqs[r].auth = "Bearer wrong"
                    /\ reqs[r].status = 401
                    /\ access_token = None

\* C2: a call of init_credentials that fails, whatever the kind of failure
\* (key material not configured, malformed JSON, missing project_id, exchange
\* rejected), leaves the cached token and its expiry as they were.
C2_FailedLoadKeepsToken ==
    [][(op'.load.called = 1 /\ ~op'.load.ok)
       => (access_token' = access_token /\ token_expiry' = token_expiry)]_vars

\* a refresh was rejected by the provider while a token was cached
C2_Witness ==
    /\ op.load.called = 1
    /\ op.load.result = "exchange_failed"
    /\ access_token # None

\* C3: a failing load or a failing operator update leaves key material,
\* project id, token and expiry all unchanged.
C3_ReplacementAllOrNothing ==
    [][((op'.load.called = 1 /\ ~op'.load.ok) \/ (op'.name = "update" /\ ~op'.success))
       => CredentialState' = CredentialState]_vars

\* C4: get_token called when now < token_expiry - 300 returns the cached
\* token, performs no load and no exchange and changes nothing: token, expiry,
\* project id and key material are unchanged and the log holds only what the
\* handler logged before the call.
C4_FreshTokenNoSideEffect ==
    [][\A r \in Reqs :
         (op'.get_token /\ op'.r = r /\ now < token_expiry - REFRESH_SKEW)
         => /\ reqs'[r].token = access_token
            /\ op'.load.called = 0 /\ op'.load.exchanges = 0
            /\ reqs'[r].exchanges = reqs[r].exchanges
            /\ reqs'[r].loads = reqs[r].loads
            /\ CredentialState' = CredentialState
            /\ logger' = IF op'.name = "chat_body"
                         THEN MemoryLogger_add(logger, "info", "request")
                         ELSE logger]_vars

\* get_token returned a cached token one second before the threshold
C4_Witness ==
    \E r \in Reqs : /\ op.get_token /\ op.r = r
                    /\ now = token_expiry - REFRESH_SKEW - 1
                    /\ reqs[r].token = access_token
                    /\ access_token # None

C6_PresentedTokenHasSkew ==
    \A r \in Reqs :
       (reqs[r].got_token /\ reqs[r].upstream_calls > 0) => reqs[r].left >= REFRESH_SKEW

\* C7: after a successful exchange that returns expires_in = E the stored
\* expiry is (time of the exchange) + E, with 1800 only when the answer has no
\* expires_in.
C7_ExpiryHonorsExpiresIn ==
    [][op'.load.ok
       => token_expiry' = now + (IF op'.load.expires_in = NoExpiresIn
                                 THEN TOKEN_LIFETIME ELSE op'.load.expires_in)]_vars

\* C8: on the non-streaming path an upstream answer with a status S other
\* than 200 and body B gives the caller status S with B as the error detail.
C8_UpstreamStatusForwarded ==
    \A r \in Reqs :
       (/\ reqs[r].pc = "done" /\ ~reqs[r].is_stream
        /\ reqs[r].upstream_calls = 1
        /\ reqs[r].upstream_status \notin {0, 200})
       => (reqs[r].status = reqs[r].upstream_status
           /\ reqs[r].detail = reqs[r].upstream_text)

\* C9: on the non-streaming path a 200 answer without a candidate (key absent
\* or empty list), or whose first candidate has no content, no part (absent or
\* empty list) or no text, completes the request successfully with the empty
\* string as message content.
C9_MissingTextIsEmptyString ==
    \A r \in Reqs :
       (/\ reqs[r].pc = "done" /\ ~reqs[r].is_stream
        /\ reqs[r].upstream_status = 200
        /\ reqs[r].upstream_text \in {"r_no_candidates_key", "r_empty_candidates",
                                      "r_no_content", "r_no_parts", "r_empty_parts",
                                      "r_no_text"})
       => (reqs[r].status = 200 /\ reqs[r].content = "")

\* C10: when the upstream lines of a streaming call end without error (and
\* the consumer has read the stream to its end), the output of the generator
\* holds exactly one [DONE] frame and that frame is the last one.
C10_OneDoneFrameLast ==
    \A r \in Reqs :
       (reqs[r].pc = "done" /\ reqs[r].opened /\ ~reqs[r].fails /\ ~reqs[r].closed)
       => LET out == reqs[r].out
          IN  /\ Len(out) > 0
              /\ out[Len(out)] = DoneFrame
              /\ Cardinality({i \in 1..Len(out) : out[i].kind = "done"}) = 1

\* a stream of two lines ended normally after a skipped line and a chunk
C10_Witness ==
    \E r \in Reqs : /\ reqs[r].pc = "done" /\ reqs[r].opened /\ ~reqs[r].fails
                    /\ Len(reqs[r].lines) = 2
                    /\ Len(reqs[r].out) = 2
                    /\ reqs[r].out[1].kind = "chunk"
                    /\ reqs[r].out[2] = DoneFrame

\* the frames of an output that have a given kind, in order
RECURSIVE FramesOfKind(_, _)
FramesOfKind(out, kind) ==
    IF out = <<>> THEN <<>>
    ELSE (IF Head(out).kind = kind THEN << Head(out) >> ELSE <<>>)
         \o FramesOfKind(Tail(out), kind)

\* C11: when opening or reading the upstream stream raises, after any number
\* of chunk frames, the output seen by a consumer that is still reading ends
\* with exactly one error frame carrying the message of the exception: every
\* frame before it is a chunk frame, there is no [DONE] frame, and the
\* generator has ended.
C11_OneErrorFrameLast ==
    \A r \in Reqs :
       (/\ reqs[r].pc \in {"done", "streaming"} /\ reqs[r].upstream_calls = 1
        /\ reqs[r].is_stream /\ ~reqs[r].closed
        /\ reqs[r].message # ""
        /\ (reqs[r].opened => reqs[r].pos = Len(reqs[r].lines)))
       => LET out == reqs[r].out
          IN  IF reqs[r].pc = "streaming"
              THEN FramesOfKind(out, "chunk") = out
              ELSE /\ Len(out) > 0
                   /\ out[Len(out)] = ErrorFrame(reqs[r].message)
                   /\ FramesOfKind(out, "chunk") = SubSeq(out, 1, Len(out) - 1)

\* a read that failed after one chunk frame was emitted
C11_Witness ==
    \E r \in Reqs : /\ reqs[r].pc = "done" /\ reqs[r].opened /\ reqs[r].fails
                    /\ ~reqs[r].closed
                    /\ reqs[r].out = << ChunkFrame("hello"), ErrorFrame("connection reset") >>

\* the text at candidates[0].content.parts[0] of the payload of a line that
\* starts with `data: `, if the line has one
C12_TextOf(line) ==
    LET parsed == json_loads(line.payload)
        data == parsed.val
        absent == [has |-> FALSE, text |-> ""]
    IN  IF line.prefix # "data: " \/ ~parsed.ok THEN absent
        ELSE IF ~Has(data, "candidates") THEN absent
        ELSE IF Len(data.candidates) = 0 THEN absent
        ELSE IF ~Has(data.candidates[1], "content") THEN absent
        ELSE IF ~Has(data.candidates[1].content, "parts") THEN absent
        ELSE IF Len(data.candidates[1].content.parts) = 0 THEN absent
        ELSE IF ~Has(data.candidates[1].content.parts[1], "text") THEN absent
        ELSE [has |-> TRUE, text |-> data.candidates[1].content.parts[1].text]

\* one chunk frame per line that has a text, the empty texts included or not
RECURSIVE C12_FramesOfTexts(_, _)
C12_FramesOfTexts(lines, with_empty) ==
    IF lines = <<>> THEN <<>>
    ELSE LET t == C12_TextOf(Head(lines))
         IN  (IF t.has /\ (with_empty \/ t.text # "")
              THEN << ChunkFrame(t.text) >> ELSE <<>>)
             \o C12_FramesOfTexts(Tail(lines), with_empty)

\* the upstream lines a request has consumed so far
C12_Consumed(r) == SubSeq(reqs[r].lines, 1, reqs[r].pos)

\* C12 (as stated): the chunk frames emitted are, in upstream order, exactly
\* one frame per consumed line that starts with `data: ` and has a text at
\* candidates[0].content.parts[0], whatever that text is.
C12_OneFramePerText ==
    \A r \in Reqs :
       (reqs[r].opened /\ ~reqs[r].closed)
       => FramesOfKind(reqs[r].out, "chunk") = C12_FramesOfTexts(C12_Consumed(r), TRUE)

\* C12 (amended): the chunk frames emitted are, in upstream order, exactly one
\* frame per consumed line that starts with `data: ` and has a non-empty text
\* at candidates[0].content.parts[0], with that text as content; every other
\* line gives no frame, and a stream that ends normally has consumed every
\* upstream line.
C12_OneFramePerNonEmptyText ==
    \A r \in Reqs :
       (reqs[r].opened /\ ~reqs[r].closed)
       => /\ FramesOfKind(reqs[r].out, "chunk")
               = C12_FramesOfTexts(C12_Consumed(r), FALSE)
          /\ (reqs[r].pc = "done" => reqs[r].pos = Len(reqs[r].lines))

\* a line that fails to parse is skipped and the line after it gives a frame
C12_Witness ==
    \E r \in Reqs : /\ reqs[r].pc = "done" /\ ~reqs[r].closed
                    /\ reqs[r].lines = << Line("data: ", "not json"),
                                          Line("data: ", "r_world") >>
                    /\ reqs[r].out = << ChunkFrame("world"), DoneFrame >>

\* C13: for a chat request with at least one message the translation gives
\* the streamGenerateContent URL when stream is true and the generateContent
\* URL otherwise, built from the configured project id, region and model
\* only; the body has a single user turn whose text is the content of the
\* last message, and temperature and max_tokens are copied with the defaults
\* 0.7 and 2048.
C13_TranslationShape ==
    [][\A r \in Reqs :
          LET parsed == json_loads(reqs'[r].body)
              body == parsed.val
              last == body.messages[Len(body.messages)]
              stream == Has(body, "stream") /\ body.stream
          IN  (/\ op'.name = "chat_body" /\ op'.r = r
               /\ parsed.ok /\ Has(body, "messages") /\ Len(body.messages) >= 1)
              => /\ reqs'[r].url =
                      [project |-> GCP_PROJECT_ID, location |-> GCP_LOCATION,
                       model |-> GCP_MODEL,
                       method |-> IF stream THEN "streamGenerateContent"
                                  ELSE "generateContent"]
                 /\ reqs'[r].vertex_body.contents =
                      << [role |-> "user", parts |-> << [text |-> last.content] >>] >>
                 /\ reqs'[r].vertex_body.generationConfig.temperature =
                      (IF Has(body, "temperature") THEN body.temperature
                       ELSE DEFAULT_TEMPERATURE_TENTHS)
                 /\ reqs'[r].vertex_body.generationConfig.maxOutputTokens =
                      (IF Has(body, "max_tokens") THEN body.max_tokens
                       ELSE DEFAULT_MAX_TOKENS)]_vars

\* a streaming request of two messages was translated: the text is that of
\* the second message
C13_Witness ==
    \E r \in Reqs : /\ op.name = "chat_body" /\ op.r = r
                    /\ reqs[r].body = "body_stream"
                    /\ reqs[r].url.method = "streamGenerateContent"
                    /\ reqs[r].url.project = "projB"
                    /\ reqs[r].vertex_body.contents[1].parts[1].text = "tell"

\* C14 (as stated): a chat request with a valid bearer secret that finds no
\* cached token attempts exactly one load; when that load fails the request
\* ends with status 503 and no upstream call.
C14_FailedLoadIs503 ==
    [][\A r \in Reqs :
          (/\ op'.name = "chat_begin" /\ op'.r = r
           /\ authorized(reqs'[r].auth) /\ access_token = None)
          => /\ op'.load.called = 1
             /\ (~op'.load.ok => /\ reqs'[r].pc = "done"
                                 /\ reqs'[r].status = 503
                                 /\ reqs'[r].upstream_calls = 0)]_vars

\* C15 (as stated): when the upstream answers the streaming call with a status
\* outside 200..299, the output seen by a consumer that is still reading ends
\* with an error frame and holds no [DONE] frame.
C15_NonOkStreamEndsWithError ==
    \A r \in Reqs :
       (/\ reqs[r].pc = "done" /\ reqs[r].opened /\ ~reqs[r].closed
        /\ reqs[r].upstream_status \notin 200..299)
       => LET out == reqs[r].out
          IN  /\ Len(out) > 0
              /\ out[Len(out)].kind = "error"
              /\ FramesOfKind(out, "done") = <<>>

\* C16 (as stated): the bearer token a request sends to the upstream was
\* obtained from the credential whose project id is in the URL of that request.
C16_UrlAndTokenSameCredential ==
    \A r \in Reqs :
       (reqs[r].got_token /\ reqs[r].upstream_calls >= 1 /\ reqs[r].token # None)
       => reqs[r].token[3] = reqs[r].url.project

\* C17 (as stated): once the consumer of a streaming response has
\* disconnected, the upstream connection of that response is released and the
\* generator reads no further upstream line.
C17_ClosedReleasesUpstream ==
    \A r \in Reqs :
       reqs[r].closed => (~reqs[r].conn_open /\ reqs[r].pc = "done")

\* C18 (as stated): a chat request that got past the credential check and
\* reached its end (success, upstream error or internal error, streaming or
\* not, the consumer still there) has written exactly one log entry for that
\* outcome.
C18_OneOutcomeLog ==
    \A r \in Reqs :
       (reqs[r].pc = "done" /\ reqs[r].body # "" /\ ~reqs[r].closed)
       => reqs[r].outcome_logs = 1

\* C19 (as stated): one chat request makes at most one token exchange attempt
\* and at most one upstream call.
C19_OneExchangeOneCall ==
    \A r \in Reqs : reqs[r].exchanges <= 1 /\ reqs[r].upstream_calls <= 1

\* C19 (amended): within one chat request a load happens only in the check for
\* a missing token or in get_token; each makes one load of at most one
\* exchange attempt; get_token is called at most once; a failed load for a
\* missing token ends the request without an upstream call; so a request makes
\* at most two exchange attempts (the second one the refresh of the token the
\* first one obtained) and at most one upstream call.
C19_NoRetries ==
    [][\A r \in Reqs :
          op'.r = r
          => /\ op'.load.called <= 1 /\ op'.load.exchanges <= 1
             /\ (op'.load.called = 1 => (op'.name = "chat_begin" \/ op'.get_token))
             /\ (op'.get_token => ~reqs[r].got_token /\ reqs'[r].got_token)
             /\ ((op'.name = "chat_begin" /\ op'.load.called = 1 /\ ~op'.load.ok)
                 => (reqs'[r].pc = "done" /\ reqs'[r].upstream_calls = 0))
             /\ reqs'[r].loads <= 2 /\ reqs'[r].exchanges <= 2
             /\ (reqs'[r].exchanges = 2 => reqs'[r].token # None)
             /\ reqs'[r].upstream_calls <= 1]_vars

\* a request loaded the missing token, found it stale when it prepared the
\* upstream call, refreshed it and sent one upstream call
C19_Witness ==
    \E r \in Reqs : /\ reqs[r].loads = 2 /\ reqs[r].exchanges = 2
                    /\ reqs[r].upstream_calls = 1

\* C20: once a token is cached no step clears it: not a failed refresh, not a
\* failed update, not the passing of time; the cred_valid flag of /health and
\* the cred flag of /api/status stay true.
C20_TokenNeverCleared ==
    [][access_token # None
       => (access_token' # None /\ health'.cred_valid /\ status'.cred)]_vars

\* the cached token has expired and the refresh a request tried has failed:
\* the token is still cached
C20_Witness ==
    /\ access_token # None
    /\ now > token_expiry
    /\ op.get_token /\ op.load.called = 1 /\ ~op.load.ok
    /\ health.cred_valid /\ status.cred

====
